---- MODULE Spec2Model ----
(***************************************************************************)
(* Ingredient normalization and consolidation engine of                    *)
(* backend/app/services/ingredient_parser.py.                              *)
(*                                                                         *)
(* Texts are TLA+ strings, handled character by character with Len, Head,  *)
(* Tail, SubSeq and \o.  An Optional[...] value is a sequence of length at  *)
(* most one: None is <<>> and a present value v is <<v>>.  A confidence is  *)
(* an integer number of hundredths (0.6 is 60, 1.0 is 100).                *)
(***************************************************************************)
EXTENDS Integers, Sequences, FiniteSets, TLC

VARIABLES
    pc,                     \* position in parse_ingredients_list / its caller
    ingredients,            \* parse_ingredients_list: the input list of lines
    i,                      \* first pass: number of lines already parsed
    parsed,                 \* what parse_ingredient returned (or raised) per line
    structured,             \* parse_ingredient_structured's result per line
    ingredient_map,         \* insertion-ordered dict raw_ingredient -> records
    structured_ingredients, \* the list parse_ingredients_list returns
    shopping_items,         \* result of get_shopping_list_items on that list
    call,                   \* a single call of one function: its arguments
    ret                     \* the value that call returned

vars == <<pc, ingredients, i, parsed, structured, ingredient_map,
          structured_ingredients, shopping_items, call, ret>>

----------------------------------------------------------------------------
(* Python values *)

None == <<>>
Some(v) == <<v>>
\* Python truthiness of an Optional[str]: None and "" are falsy
truthy(opt) == opt # None /\ opt[1] # ""

----------------------------------------------------------------------------
(* str methods used by the parser *)

CharAt(s, k) == SubSeq(s, k, k)

\* the lowercase letter of each uppercase letter
LowerOf ==
    LET upper == "ABCDEFGHIJKLMNOPQRSTUVWXYZ"
        lower == "abcdefghijklmnopqrstuvwxyz"
    IN  [c \in {CharAt(upper, k) : k \in 1..Len(upper)} |->
            CharAt(lower, CHOOSE k \in 1..Len(upper) : CharAt(upper, k) = c)]

RECURSIVE str_lower(_)
str_lower(s) ==
    IF s = "" THEN ""
    ELSE (IF Head(s) \in DOMAIN LowerOf THEN LowerOf[Head(s)] ELSE Head(s)) \o str_lower(Tail(s))

is_space(c) == c \in {" ", "\t", "\n"}

RECURSIVE str_lstrip(_)
str_lstrip(s) == IF s # "" /\ is_space(Head(s)) THEN str_lstrip(Tail(s)) ELSE s

RECURSIVE str_rstrip(_)
str_rstrip(s) ==
    IF s # "" /\ is_space(CharAt(s, Len(s)))
    THEN str_rstrip(SubSeq(s, 1, Len(s) - 1))
    ELSE s

str_strip(s) == str_rstrip(str_lstrip(s))

\* sub in s
str_contains(s, sub) ==
    \E k \in 0..(Len(s) - Len(sub)) : SubSeq(s, k + 1, k + Len(sub)) = sub

str_startswith(s, prefix) ==
    /\ Len(prefix) <= Len(s)
    /\ SubSeq(s, 1, Len(prefix)) = prefix

str_endswith(s, suffix) ==
    /\ Len(suffix) <= Len(s)
    /\ SubSeq(s, Len(s) - Len(suffix) + 1, Len(s)) = suffix

\* s with every character of the set chars deleted
RECURSIVE str_delete(_, _)
str_delete(s, chars) ==
    IF s = "" THEN ""
    ELSE (IF Head(s) \in chars THEN "" ELSE Head(s)) \o str_delete(Tail(s), chars)

\* s.split(): the maximal runs of non-whitespace characters, in order
RECURSIVE str_split_from(_, _)
str_split_from(s, word) ==
    IF s = "" THEN (IF word = "" THEN <<>> ELSE <<word>>)
    ELSE IF is_space(Head(s))
         THEN (IF word = "" THEN <<>> ELSE <<word>>) \o str_split_from(Tail(s), "")
         ELSE str_split_from(Tail(s), word \o Head(s))

str_split(s) == str_split_from(s, "")

\* sep.join(parts)
RECURSIVE str_join(_, _)
str_join(sep, parts) ==
    IF parts = <<>> THEN ""
    ELSE IF Len(parts) = 1 THEN parts[1]
    ELSE parts[1] \o sep \o str_join(sep, Tail(parts))

\* the elements of a list, as any(... for x in list) visits them
Range(list) == { list[k] : k \in 1..Len(list) }

----------------------------------------------------------------------------
(* Configuration and rule tables *)

CONFIDENCE_THRESHOLD == 60

DIETARY_MISPARSE_PATTERNS == <<
    [ original_contains |-> <<"eggplant">>,
      parsed_matches    |-> <<"eggs", "egg">>,
      reason   |-> "eggplant incorrectly parsed as eggs (vegan vs non-vegan)",
      severity |-> "critical" ],
    [ original_contains |-> <<"coconut milk", "almond milk", "oat milk",
                              "soy milk", "rice milk", "cashew milk">>,
      parsed_matches    |-> <<"milk">>,
      reason   |-> "plant-based milk incorrectly parsed as dairy milk (vegan vs non-vegan)",
      severity |-> "critical" ],
    [ original_contains |-> <<"almond butter", "peanut butter", "cashew butter",
                              "sunflower butter">>,
      parsed_matches    |-> <<"butter">>,
      reason   |-> "nut/seed butter incorrectly parsed as dairy butter (vegan vs non-vegan)",
      severity |-> "critical" ],
    [ original_contains |-> <<"vegan cheese", "cashew cheese", "nutritional yeast">>,
      parsed_matches    |-> <<"cheese">>,
      reason   |-> "vegan cheese incorrectly parsed as dairy cheese (vegan vs non-vegan)",
      severity |-> "critical" ],
    [ original_contains |-> <<"coconut cream", "cashew cream">>,
      parsed_matches    |-> <<"cream">>,
      reason   |-> "plant-based cream incorrectly parsed as dairy cream (vegan vs non-vegan)",
      severity |-> "critical" ],
    [ original_contains |-> <<"egg replacer", "flax egg", "chia egg">>,
      parsed_matches    |-> <<"eggs", "egg">>,
      reason   |-> "egg substitute incorrectly parsed as eggs (vegan vs non-vegan)",
      severity |-> "critical" ],
    [ original_contains |-> <<"vanilla extract">>,
      parsed_matches    |-> <<"vanilla">>,
      reason   |-> "vanilla extract parsed as just vanilla (loses specificity)",
      severity |-> "medium" ],
    [ original_contains |-> <<"seaweed", "kelp", "nori">>,
      parsed_matches    |-> <<"meat", "beef", "pork", "chicken">>,
      reason   |-> "sea vegetable incorrectly parsed as meat (vegan vs non-vegan)",
      severity |-> "critical" ] >>

RAW_INGREDIENT_CONSOLIDATION == <<
    [ consolidated_name |-> "eggs",
      variations |-> <<"egg", "eggs", "whole egg", "whole eggs", "large egg", "large eggs">> ],
    [ consolidated_name |-> "butter",
      variations |-> <<"butter", "unsalted butter", "salted butter">> ],
    [ consolidated_name |-> "sugar",
      variations |-> <<"sugar", "granulated sugar", "white sugar", "cane sugar">> ],
    [ consolidated_name |-> "brown sugar",
      variations |-> <<"brown sugar", "dark brown sugar", "light brown sugar">> ],
    [ consolidated_name |-> "salt",
      variations |-> <<"salt", "kosher salt", "sea salt", "table salt", "fine salt">> ],
    [ consolidated_name |-> "olive oil",
      variations |-> <<"olive oil", "extra virgin olive oil", "evoo">> ] >>

IGNORED_INGREDIENTS == <<"water">>

----------------------------------------------------------------------------
(* check_dietary_misparse *)


\* a containment test with its operands exchanged
original_match_reversed(pattern, original_lower) ==
    \E phrase \in Range(pattern.original_contains) : str_contains(phrase, original_lower)

\* any(phrase in original_lower for phrase in pattern['original_contains'])
original_match(pattern, original_lower) ==
    \E phrase \in Range(pattern.original_contains) : str_contains(original_lower, phrase)


\* a match of the parsed name by containment instead of equality or suffix
parsed_match_substring(pattern, parsed_lower) ==
    \E target \in Range(pattern.parsed_matches) : str_contains(parsed_lower, target)

\* any(parsed_lower == target or parsed_lower.endswith(target) for target in ...)
parsed_match(pattern, parsed_lower) ==
    \E target \in Range(pattern.parsed_matches) :
        parsed_lower = target \/ str_endswith(parsed_lower, target)

\* the loop over the rule table, from rule k on: the first rule that fires returns
RECURSIVE misparse_scan(_, _, _, _)
misparse_scan(patterns, k, original_lower, parsed_lower) ==
    IF k > Len(patterns) THEN <<FALSE, "">>
    ELSE IF original_match(patterns[k], original_lower)
            /\ parsed_match(patterns[k], parsed_lower)
         THEN <<TRUE, patterns[k].reason>>
         ELSE misparse_scan(patterns, k + 1, original_lower, parsed_lower)

\* the function over a given rule table
check_dietary_misparse_with(patterns, original_text, parsed_name) ==
    misparse_scan(patterns, 1, str_strip(str_lower(original_text)),
                  str_strip(str_lower(parsed_name)))

check_dietary_misparse(original_text, parsed_name) ==
    check_dietary_misparse_with(DIETARY_MISPARSE_PATTERNS, original_text, parsed_name)

----------------------------------------------------------------------------
(* normalize_raw_ingredient *)

\* name = ingredient_name.lower().strip(); name = re.sub(r'\*+', '', name).strip()
clean_name(ingredient_name) ==
    str_strip(str_delete(str_strip(str_lower(ingredient_name)), {"*"}))


\* an ignored-ingredient test by equality
is_ignored_exact(name) == \E ignored \in Range(IGNORED_INGREDIENTS) : name = ignored

\* any(ignored in name for ignored in IGNORED_INGREDIENTS)
is_ignored(name) ==
    \E ignored \in Range(IGNORED_INGREDIENTS) : str_contains(name, ignored)


\* the earlier substring matching of variants
variation_match_substring(name, variations) ==
    \E var \in Range(variations) : str_contains(name, str_lower(var))

\* name in [var.lower() for var in variations]
variation_match(name, variations) ==
    \E var \in Range(variations) : name = str_lower(var)

\* the loop over the consolidation groups, from group k on
RECURSIVE consolidate_scan(_, _)
consolidate_scan(name, k) ==
    IF k > Len(RAW_INGREDIENT_CONSOLIDATION) THEN name
    ELSE IF variation_match(name, RAW_INGREDIENT_CONSOLIDATION[k].variations)
         THEN RAW_INGREDIENT_CONSOLIDATION[k].consolidated_name
         ELSE consolidate_scan(name, k + 1)

normalize_raw_ingredient(ingredient_name) ==
    LET name == clean_name(ingredient_name)
    IN  IF is_ignored(name) THEN None ELSE Some(consolidate_scan(name, 1))

----------------------------------------------------------------------------
(* Fraction codec *)

\* A unicode vulgar fraction is written as its value between braces: {1/2}
\* is the one-character glyph U+00BD.  Braces occur in no other text.

UNICODE_TO_FRACTION == <<
    <<"{1/2}", "1/2">>, <<"{1/3}", "1/3">>, <<"{2/3}", "2/3">>, <<"{1/4}", "1/4">>, <<"{3/4}", "3/4">>,
    <<"{1/5}", "1/5">>, <<"{2/5}", "2/5">>, <<"{3/5}", "3/5">>, <<"{4/5}", "4/5">>, <<"{1/6}", "1/6">>,
    <<"{5/6}", "5/6">>, <<"{1/8}", "1/8">>, <<"{3/8}", "3/8">>, <<"{5/8}", "5/8">>, <<"{7/8}", "7/8">> >>

\* FRACTION_TO_UNICODE.get(frac_str, frac_str)
FRACTION_TO_UNICODE_get(frac_str) ==
    IF \E k \in 1..Len(UNICODE_TO_FRACTION) : UNICODE_TO_FRACTION[k][2] = frac_str
    THEN UNICODE_TO_FRACTION[CHOOSE k \in 1..Len(UNICODE_TO_FRACTION) :
                                 UNICODE_TO_FRACTION[k][2] = frac_str][1]
    ELSE frac_str

DIGITS == "0123456789"

DigitValue == [c \in {CharAt(DIGITS, k) : k \in 1..Len(DIGITS)} |->
                  (CHOOSE k \in 1..Len(DIGITS) : CharAt(DIGITS, k) = c) - 1]

is_digit(c) == c \in DOMAIN DigitValue

\* int(s) of a string of digits
RECURSIVE int_of(_)
int_of(s) ==
    IF s = "" THEN 0
    ELSE 10 * int_of(SubSeq(s, 1, Len(s) - 1)) + DigitValue[CharAt(s, Len(s))]

\* str(n) of an integer
RECURSIVE str_of_nat(_)
str_of_nat(n) ==
    IF n < 10 THEN CharAt(DIGITS, n + 1)
    ELSE str_of_nat(n \div 10) \o CharAt(DIGITS, (n % 10) + 1)

str_of_int(n) == IF n < 0 THEN "-" \o str_of_nat(-n) ELSE str_of_nat(n)

RECURSIVE power_of_ten(_)
power_of_ten(k) == IF k = 0 THEN 1 ELSE 10 * power_of_ten(k - 1)

abs(n) == IF n < 0 THEN -n ELSE n

RECURSIVE gcd(_, _)
gcd(a, b) == IF b = 0 THEN a ELSE gcd(b, a % b)

\* Fraction(numerator, denominator), denominator > 0: kept in lowest terms
Fraction(n, d) == [numerator |-> n \div gcd(abs(n), d), denominator |-> d \div gcd(abs(n), d)]

\* str(Fraction)
str_of_fraction(frac) ==
    IF frac.denominator = 1 THEN str_of_int(frac.numerator)
    ELSE str_of_int(frac.numerator) \o "/" \o str_of_int(frac.denominator)

index_of(s, c) == CHOOSE k \in 1..Len(s) : CharAt(s, k) = c /\ ~str_contains(SubSeq(s, 1, k - 1), c)

\* \d+(_\d+)* : digits, with single underscores allowed between them
is_digit_groups(s) ==
    /\ s # ""
    /\ \A k \in 1..Len(s) : is_digit(CharAt(s, k)) \/ CharAt(s, k) = "_"
    /\ is_digit(CharAt(s, 1)) /\ is_digit(CharAt(s, Len(s)))
    /\ ~str_contains(s, "__")

\* the digits of such a text
digits_of(s) == str_delete(s, {"_"})

\* n * 10^shift as a Fraction
scaled(n, shift) ==
    IF shift >= 0 THEN Fraction(n * power_of_ten(shift), 1)
    ELSE Fraction(n, power_of_ten(-shift))

\* the text before and the text after the exponent marker (None without one)
split_at(t, k) == <<SubSeq(t, 1, k - 1), Some(SubSeq(t, k + 1, Len(t)))>>

split_exponent(t) ==
    IF str_contains(str_lower(t), "e") THEN split_at(t, index_of(str_lower(t), "e"))
    ELSE <<t, None>>

\* the value of an exponent [-+]?\d+, None when the text is not one
signed_value(negative, digits) ==
    IF ~is_digit_groups(digits) THEN None
    ELSE IF negative THEN Some(-int_of(digits_of(digits)))
    ELSE Some(int_of(digits_of(digits)))

exponent_value(ex) ==
    IF ex # "" /\ Head(ex) \in {"+", "-"} THEN signed_value(Head(ex) = "-", Tail(ex))
    ELSE signed_value(FALSE, ex)

\* the parts of a decimal text: digits around an optional point, with digits
\* on at least one side of it, and an optional exponent.  None when the text
\* has another form.
checked_parts(whole, decimal, exponent) ==
    IF /\ whole \o decimal # ""
       /\ (whole = "" \/ is_digit_groups(whole))
       /\ (decimal = "" \/ is_digit_groups(decimal))
       /\ exponent # None
    THEN Some([whole |-> digits_of(whole), decimal |-> digits_of(decimal),
               exponent |-> exponent[1]])
    ELSE None

mantissa_parts(mantissa, exponent) ==
    IF str_contains(mantissa, ".")
    THEN checked_parts(SubSeq(mantissa, 1, index_of(mantissa, ".") - 1),
                       SubSeq(mantissa, index_of(mantissa, ".") + 1, Len(mantissa)),
                       exponent)
    ELSE checked_parts(mantissa, "", exponent)

decimal_parts(t) ==
    mantissa_parts(split_exponent(t)[1],
                   IF split_exponent(t)[2] = None THEN Some(0)
                   ELSE exponent_value(split_exponent(t)[2][1]))

\* the unsigned body of a number text: digits, digits/digits, or a decimal.
\* None is ValueError or ZeroDivisionError, which the callers catch together.
ratio_fraction(n, d) ==
    IF is_digit_groups(n) /\ is_digit_groups(d) /\ int_of(digits_of(d)) # 0
    THEN Some(Fraction(int_of(digits_of(n)), int_of(digits_of(d))))
    ELSE None

decimal_fraction(parts) ==
    IF parts = None THEN None
    ELSE Some(scaled(int_of(parts[1].whole \o parts[1].decimal),
                     parts[1].exponent - Len(parts[1].decimal)))

unsigned_fraction(t) ==
    IF is_digit_groups(t) THEN Some(Fraction(int_of(digits_of(t)), 1))
    ELSE IF str_contains(t, "/")
    THEN ratio_fraction(split_at(t, index_of(t, "/"))[1], split_at(t, index_of(t, "/"))[2][1])
    ELSE decimal_fraction(decimal_parts(t))

\* the number text without surrounding whitespace and without its sign
unsigned(t) == IF t # "" /\ Head(t) \in {"+", "-"} THEN Tail(t) ELSE t

\* Fraction(text): surrounding whitespace and one leading sign are accepted
signed_fraction(negative, body) ==
    IF body = None THEN None
    ELSE IF negative
         THEN Some([numerator |-> -body[1].numerator, denominator |-> body[1].denominator])
         ELSE body

fraction_of_str(text) ==
    signed_fraction(str_startswith(str_strip(text), "-"),
                    unsigned_fraction(unsigned(str_strip(text))))

\* the number of zeros a text of digits starts with
RECURSIVE leading_zeros(_)
leading_zeros(digits) ==
    IF digits # "" /\ Head(digits) = "0" THEN 1 + leading_zeros(Tail(digits)) ELSE 0

\* the decimal exponent x of a decimal text of value 0.d1d2... * 10^x with
\* d1 # 0 (None for a value of zero)
decimal_exponent(parts) ==
    IF leading_zeros(parts.whole \o parts.decimal) = Len(parts.whole \o parts.decimal) THEN None
    ELSE Some(Len(parts.whole) - leading_zeros(parts.whole \o parts.decimal) + parts.exponent)

\* float(text) is infinite: the value is at least 10^309, beyond the largest
\* double (about 1.8 * 10^308)
FLOAT_MAX_10_EXP == 308

exceeds_float(parts) ==
    /\ parts # None
    /\ decimal_exponent(parts[1]) # None
    /\ decimal_exponent(parts[1])[1] > FLOAT_MAX_10_EXP + 1

\* Fraction.limit_denominator(): the fraction of denominator at most
\* 1000000 nearest to the float.  A value whose own denominator is at most
\* 1000000 is that fraction; a value less than 1/2000000 above a whole number
\* is nearest to that whole number.
MAX_DENOMINATOR == 1000000

limit_denominator(frac) ==
    IF frac.denominator <= MAX_DENOMINATOR THEN frac
    ELSE LET whole_part == abs(frac.numerator) \div frac.denominator
             remainder == abs(frac.numerator) % frac.denominator
             nearest == CHOOSE w \in {whole_part} :
                            remainder < 500 /\ remainder * 2 * MAX_DENOMINATOR < frac.denominator
         IN  Fraction(IF frac.numerator < 0 THEN -nearest ELSE nearest, 1)

\* Fraction(float(text)).limit_denominator() of a decimal text that float()
\* takes to a finite value; None is the ValueError of float()
fraction_of_float(text, parts) ==
    IF str_contains(text, "/") \/ parts = None THEN None
    ELSE IF decimal_exponent(parts[1]) = None
            \/ decimal_exponent(parts[1])[1] < -6
         THEN Some(Fraction(0, 1))
         ELSE Some(limit_denominator(fraction_of_str(text)[1]))

\* the replacement of a glyph without the space of line 100
RECURSIVE replace_glyph_plain(_, _, _, _)
replace_glyph_plain(s, glyph, text_frac, prev_digit) ==
    IF s = "" THEN ""
    ELSE IF str_startswith(s, glyph)
         THEN text_frac \o replace_glyph_plain(SubSeq(s, Len(glyph) + 1, Len(s)), glyph,
                                               text_frac, FALSE)
         ELSE Head(s) \o replace_glyph_plain(Tail(s), glyph, text_frac, FALSE)

\* one glyph of the table: re.sub('(\d)glyph', '\1 text', ...) and then
\* .replace(glyph, text); prev_digit tells whether a digit precedes s
RECURSIVE replace_glyph(_, _, _, _)
replace_glyph(s, glyph, text_frac, prev_digit) ==
    IF s = "" THEN ""
    ELSE IF str_startswith(s, glyph)
         THEN (IF prev_digit THEN " " ELSE "") \o text_frac
              \o replace_glyph(SubSeq(s, Len(glyph) + 1, Len(s)), glyph, text_frac, FALSE)
         ELSE Head(s) \o replace_glyph(Tail(s), glyph, text_frac, is_digit(Head(s)))

\* the loop over UNICODE_TO_FRACTION, from entry k on
RECURSIVE replace_glyphs(_, _)
replace_glyphs(s, k) ==
    IF k > Len(UNICODE_TO_FRACTION) THEN s
    ELSE replace_glyphs(replace_glyph(s, UNICODE_TO_FRACTION[k][1],
                                      UNICODE_TO_FRACTION[k][2], FALSE), k + 1)

\* the number of digits s ends with
RECURSIVE trailing_digits(_)
trailing_digits(s) ==
    IF s # "" /\ is_digit(CharAt(s, Len(s)))
    THEN 1 + trailing_digits(SubSeq(s, 1, Len(s) - 1))
    ELSE 0

\* s ends with \d+/\d+
ends_with_fraction(s) ==
    LET d == trailing_digits(s)
    IN  /\ d > 0
        /\ Len(s) >= d + 2
        /\ CharAt(s, Len(s) - d) = "/"
        /\ is_digit(CharAt(s, Len(s) - d - 1))

\* re.sub(r'(\d+/\d+)-', r'\1 ', text): the hyphens after position k
RECURSIVE fix_hyphens(_, _)
fix_hyphens(s, k) ==
    IF k > Len(s) THEN ""
    ELSE (IF CharAt(s, k) = "-" /\ ends_with_fraction(SubSeq(s, 1, k - 1))
          THEN " " ELSE CharAt(s, k)) \o fix_hyphens(s, k + 1)

normalize_fractions_for_parsing(text) == fix_hyphens(replace_glyphs(text, 1), 1)

\* the conversion without the mixed-number branch of lines 122-134
\* lines 116-119: the Fraction of the text, None when the parse fails
parsed_fraction(fraction_str) ==
    IF str_contains(fraction_str, ".")
    THEN fraction_of_float(fraction_str, decimal_parts(unsigned(str_strip(fraction_str))))
    ELSE fraction_of_str(fraction_str)

\* lines 122-137: the display text of a parsed Fraction
mixed_number(frac) ==
    IF frac.numerator >= frac.denominator /\ frac.denominator # 1
    THEN LET whole_part == frac.numerator \div frac.denominator
             remainder == frac.numerator % frac.denominator
         IN  IF remainder = 0 THEN str_of_int(whole_part)
             ELSE str_of_int(whole_part) \o " " \o
                  FRACTION_TO_UNICODE_get(
                      str_of_fraction(Fraction(remainder, frac.denominator)))
    ELSE FRACTION_TO_UNICODE_get(str_of_fraction(frac))

\* the rendering without the mixed-number branch of lines 122-134
rendered_improper(fraction_str, frac) ==
    IF frac = None THEN fraction_str
    ELSE FRACTION_TO_UNICODE_get(str_of_fraction(frac[1]))

\* lines 140-141: the input text when the parse failed
rendered(fraction_str, frac) ==
    IF frac = None THEN fraction_str ELSE mixed_number(frac[1])

\* the conversion without the mixed-number branch of lines 122-134
convert_to_unicode_fraction_improper(fraction_str) ==
    IF fraction_str = "" THEN fraction_str
    ELSE rendered_improper(fraction_str, parsed_fraction(fraction_str))

\* convert_to_unicode_fraction raises: Fraction(float(...)) of an infinite
\* float is an OverflowError, which the handler of line 140 does not catch
convert_to_unicode_fraction_raises(fraction_str) ==
    /\ fraction_str # ""
    /\ str_contains(fraction_str, ".")
    /\ ~str_contains(fraction_str, "/")
    /\ exceeds_float(decimal_parts(unsigned(str_strip(fraction_str))))

\* the value convert_to_unicode_fraction returns when it does not raise
convert_to_unicode_fraction(fraction_str) ==
    IF fraction_str = "" THEN fraction_str
    ELSE rendered(fraction_str, parsed_fraction(fraction_str))

----------------------------------------------------------------------------
(* parse_ingredient_structured *)

(* What the external parse_ingredient did on one line: it raised, or it     *)
(* returned an object with                                                 *)
(*   amount       a list of [quantity, unit], each an Optional text        *)
(*                (quantity is str(raw_quantity));                          *)
(*   name         [kind |-> "list", items |-> a list of [text, confidence]] *)
(*                or [kind |-> "str", text |-> str(parsed.name)];           *)
(*   preparation, comment   the Optional text of each.                     *)

StructuredIngredient(raw, qty, u, descr, orig, conf, fallback) ==
    [ raw_ingredient |-> raw, quantity |-> qty, unit |-> u, descriptors |-> descr,
      original_text |-> orig, confidence |-> conf, used_fallback |-> fallback ]

\* lines 232-243: quantity of the first amount, rendered for display
extract_quantity(p) ==
    IF p.amount # <<>> /\ truthy(p.amount[1].quantity)
    THEN Some(convert_to_unicode_fraction(p.amount[1].quantity[1]))
    ELSE None

\* lines 236-239: unit of the first amount
extract_unit(p) ==
    IF p.amount # <<>> /\ truthy(p.amount[1].unit) THEN p.amount[1].unit ELSE None

\* lines 246-253: the name, None when parsed.name is empty
extract_name(p) ==
    IF p.name.kind = "list"
    THEN (IF p.name.items # <<>> THEN Some(p.name.items[1].text) ELSE None)
    ELSE (IF p.name.text # "" THEN Some(p.name.text) ELSE None)

\* lines 247-251: the confidence of the name, 1.0 when none is reported
extract_confidence(p) ==
    IF p.name.kind = "list" /\ p.name.items # <<>>
    THEN p.name.items[1].confidence
    ELSE 100

\* lines 307-308 and 314-315: punctuation removed, split, short tokens dropped
descriptor_tokens(text) ==
    SelectSeq(str_split(str_delete(text, {"(", ")", ","})), LAMBDA part : Len(part) > 1)

\* lines 302-315
extract_descriptors(p) ==
    (IF truthy(p.preparation) THEN descriptor_tokens(p.preparation[1]) ELSE <<>>)
    \o (IF truthy(p.comment) THEN descriptor_tokens(p.comment[1]) ELSE <<>>)


\* a failure record that keeps the default confidence of 1.0
parse_failure_record_confident(ingredient_text) ==
    StructuredIngredient(str_strip(ingredient_text), None, None, <<>>,
                         ingredient_text, 100, TRUE)

\* lines 257-265 and 332-340: no name extracted, or the parser raised
parse_failure_record(ingredient_text) ==
    StructuredIngredient(str_strip(ingredient_text), None, None, <<>>,
                         ingredient_text, 0, TRUE)


\* a fallback that keeps the line untrimmed
fallback_record_untrimmed(ingredient_text, quantity, unit, name_confidence) ==
    StructuredIngredient(ingredient_text, quantity, unit, <<>>,
                         ingredient_text, name_confidence, TRUE)

\* a fallback that forgets what the parser found, as the failure path does
fallback_record_forgetful(ingredient_text, quantity, unit, name_confidence) ==
    StructuredIngredient(str_strip(ingredient_text), None, None, <<>>,
                         ingredient_text, 0, TRUE)

\* lines 283-293: safety override or low confidence
fallback_record(ingredient_text, quantity, unit, name_confidence) ==
    StructuredIngredient(str_strip(ingredient_text), quantity, unit, <<>>,
                         ingredient_text, name_confidence, TRUE)


\* a threshold test that also rejects a confidence equal to the threshold
confidence_fallback_inclusive(name_confidence, confidence_threshold) ==
    name_confidence <= confidence_threshold

\* line 273
confidence_fallback(name_confidence, confidence_threshold) ==
    name_confidence < confidence_threshold

\* line 270
force_fallback(ingredient_text, ingredient_name) ==
    check_dietary_misparse(ingredient_text, ingredient_name)[1]

\* the normal case with a test for None in place of the test of line 297
parsed_record_named(ingredient_text, p) ==
    LET raw_ingredient == normalize_raw_ingredient(extract_name(p)[1])
    IN  IF raw_ingredient = None THEN None
        ELSE Some(StructuredIngredient(raw_ingredient[1], extract_quantity(p),
                                       extract_unit(p), extract_descriptors(p),
                                       ingredient_text, extract_confidence(p), FALSE))

\* lines 296-327: the normal case
parsed_record(ingredient_text, p) ==
    LET raw_ingredient == normalize_raw_ingredient(extract_name(p)[1])
    IN  IF ~truthy(raw_ingredient) THEN None
        ELSE Some(StructuredIngredient(raw_ingredient[1], extract_quantity(p),
                                       extract_unit(p), extract_descriptors(p),
                                       ingredient_text, extract_confidence(p), FALSE))

\* the exception raised inside the try block of lines 228-327, None when
\* there is none: parse_ingredient raised, or the conversion of line 243 did
raised_in_try(p) ==
    IF p.raises THEN Some("Exception")
    ELSE IF /\ p.amount # <<>>
            /\ truthy(p.amount[1].quantity)
            /\ convert_to_unicode_fraction_raises(p.amount[1].quantity[1])
         THEN Some("OverflowError")
         ELSE None


\* the handler of the quantity functions: except (ValueError, ZeroDivisionError)
handler_catches_value_errors(exception) == exception \in {"ValueError", "ZeroDivisionError"}

\* line 329: except Exception
handler_catches(exception) ==
    exception \in {"Exception", "ValueError", "ZeroDivisionError", "OverflowError"}

\* an exception leaves parse_ingredient_structured
parse_ingredient_structured_raises(ingredient_text, p) ==
    /\ str_strip(ingredient_text) # ""
    /\ truthy(raised_in_try(p))
    /\ ~handler_catches(raised_in_try(p)[1])

\* the name normalizer consulted before the safety filter and the threshold
parse_ingredient_structured_normalizing_first(ingredient_text, p, confidence_threshold) ==
    IF ingredient_text = "" \/ str_strip(ingredient_text) = "" THEN None
    ELSE IF truthy(raised_in_try(p)) THEN Some(parse_failure_record(ingredient_text))
    ELSE IF ~truthy(extract_name(p)) THEN Some(parse_failure_record(ingredient_text))
    ELSE IF ~truthy(normalize_raw_ingredient(extract_name(p)[1])) THEN None
    ELSE IF \/ force_fallback(ingredient_text, extract_name(p)[1])
            \/ confidence_fallback(extract_confidence(p), confidence_threshold)
         THEN Some(fallback_record(ingredient_text, extract_quantity(p),
                                   extract_unit(p), extract_confidence(p)))
         ELSE parsed_record(ingredient_text, p)

\* the value parse_ingredient_structured returns
parse_ingredient_structured(ingredient_text, p, confidence_threshold) ==
    IF ingredient_text = "" \/ str_strip(ingredient_text) = "" THEN None
    ELSE IF truthy(raised_in_try(p)) THEN Some(parse_failure_record(ingredient_text))
    ELSE IF ~truthy(extract_name(p)) THEN Some(parse_failure_record(ingredient_text))
    ELSE IF \/ force_fallback(ingredient_text, extract_name(p)[1])
            \/ confidence_fallback(extract_confidence(p), confidence_threshold)
         THEN Some(fallback_record(ingredient_text, extract_quantity(p),
                                   extract_unit(p), extract_confidence(p)))
         ELSE parsed_record(ingredient_text, p)

----------------------------------------------------------------------------
(* Consolidation *)

fraction_add(a, b) ==
    Fraction(a.numerator * b.denominator + b.numerator * a.denominator,
             a.denominator * b.denominator)


\* a handler that gives up the second operand instead of writing 'a + b'
combine_quantities_dropping(qty1, qty2) ==
    IF ~truthy(qty1) /\ ~truthy(qty2) THEN None
    ELSE IF ~truthy(qty1) THEN qty2
    ELSE IF ~truthy(qty2) THEN qty1
    ELSE LET frac1 == fraction_of_str(normalize_fractions_for_parsing(qty1[1]))
             frac2 == fraction_of_str(normalize_fractions_for_parsing(qty2[1]))
         IN  IF frac1 = None \/ frac2 = None
             THEN qty1
             ELSE Some(convert_to_unicode_fraction(
                           str_of_fraction(fraction_add(frac1[1], frac2[1]))))

\* the total returned as str(total), without line 366
combine_quantities_unrendered(qty1, qty2) ==
    IF ~truthy(qty1) /\ ~truthy(qty2) THEN None
    ELSE IF ~truthy(qty1) THEN qty2
    ELSE IF ~truthy(qty2) THEN qty1
    ELSE LET frac1 == fraction_of_str(normalize_fractions_for_parsing(qty1[1]))
             frac2 == fraction_of_str(normalize_fractions_for_parsing(qty2[1]))
         IN  IF frac1 = None \/ frac2 = None
             THEN Some(qty1[1] \o " + " \o qty2[1])
             ELSE Some(str_of_fraction(fraction_add(frac1[1], frac2[1])))

combine_quantities(qty1, qty2) ==
    IF ~truthy(qty1) /\ ~truthy(qty2) THEN None
    ELSE IF ~truthy(qty1) THEN qty2
    ELSE IF ~truthy(qty2) THEN qty1
    ELSE LET frac1 == fraction_of_str(normalize_fractions_for_parsing(qty1[1]))
             frac2 == fraction_of_str(normalize_fractions_for_parsing(qty2[1]))
         IN  IF frac1 = None \/ frac2 = None
             THEN Some(qty1[1] \o " + " \o qty2[1])
             ELSE Some(convert_to_unicode_fraction(
                           str_of_fraction(fraction_add(frac1[1], frac2[1]))))

\* combine_quantities raises: only the conversion of line 366 is outside what
\* the handler of line 368 catches
combine_quantities_raises(qty1, qty2) ==
    /\ truthy(qty1) /\ truthy(qty2)
    /\ LET frac1 == fraction_of_str(normalize_fractions_for_parsing(qty1[1]))
           frac2 == fraction_of_str(normalize_fractions_for_parsing(qty2[1]))
       IN  /\ frac1 # None /\ frac2 # None
           /\ convert_to_unicode_fraction_raises(
                  str_of_fraction(fraction_add(frac1[1], frac2[1])))

can_combine_ingredients(ing1, ing2) ==
    IF ing1.raw_ingredient # ing2.raw_ingredient THEN FALSE
    ELSE IF ing1.unit = ing2.unit THEN TRUE
    ELSE IF ing1.unit = None /\ ing2.unit = None THEN TRUE
    ELSE FALSE

\* ing.unit or "unitless"
unit_key(ing) == IF truthy(ing.unit) THEN ing.unit[1] ELSE "unitless"

\* the keys of the dict unit_groups, in insertion order
RECURSIVE unit_keys(_)
unit_keys(ingredient_list) ==
    IF ingredient_list = <<>> THEN <<>>
    ELSE LET front == SubSeq(ingredient_list, 1, Len(ingredient_list) - 1)
             last == ingredient_list[Len(ingredient_list)]
             keys == unit_keys(front)
         IN  IF \E k \in 1..Len(keys) : keys[k] = unit_key(last)
             THEN keys ELSE Append(keys, unit_key(last))

\* combined_quantity after the loop over group[1:], folded from the left
RECURSIVE fold_quantities(_)
fold_quantities(group) ==
    IF Len(group) = 1 THEN group[1].quantity
    ELSE combine_quantities(fold_quantities(SubSeq(group, 1, Len(group) - 1)),
                            group[Len(group)].quantity)

RECURSIVE all_descriptors(_)
all_descriptors(group) ==
    IF group = <<>> THEN <<>> ELSE group[1].descriptors \o all_descriptors(Tail(group))


\* the descriptors as extended, duplicates kept
with_duplicates(items) == items

\* list(dict.fromkeys(items))
RECURSIVE unique_in_order(_)
unique_in_order(items) ==
    IF items = <<>> THEN <<>>
    ELSE LET front == unique_in_order(SubSeq(items, 1, Len(items) - 1))
             last == items[Len(items)]
         IN  IF \E k \in 1..Len(front) : front[k] = last THEN front ELSE Append(front, last)


\* the confidence of the template record instead of the lowest one
first_confidence(group) == group[1].confidence

RECURSIVE min_confidence(_)
min_confidence(group) ==
    IF Len(group) = 1 THEN group[1].confidence
    ELSE LET m == min_confidence(Tail(group))
         IN  IF group[1].confidence <= m THEN group[1].confidence ELSE m


\* all([...]) in place of any([...])
all_used_fallback(group) == \A k \in 1..Len(group) : group[k].used_fallback

\* any([ing.used_fallback for ing in group])
any_used_fallback(group) == \E k \in 1..Len(group) : group[k].used_fallback

\* f"Combined: {', '.join([ing.original_text for ing in group])}"
combined_original_text(group) ==
    "Combined: " \o str_join(", ", [k \in 1..Len(group) |-> group[k].original_text])

\* lines 411-433: the record that replaces a unit group of two or more
consolidated_ingredient(group) ==
    StructuredIngredient(group[1].raw_ingredient, fold_quantities(group), group[1].unit,
                         unique_in_order(all_descriptors(group)),
                         combined_original_text(group), min_confidence(group),
                         any_used_fallback(group))


\* the loop without the special case of a unit group of one record
RECURSIVE consolidate_units_rebuilding(_, _, _)
consolidate_units_rebuilding(ingredient_list, keys, k) ==
    IF k > Len(keys) THEN <<>>
    ELSE LET group == SelectSeq(ingredient_list, LAMBDA ing : unit_key(ing) = keys[k])
         IN  <<consolidated_ingredient(group)>>
             \o consolidate_units_rebuilding(ingredient_list, keys, k + 1)

\* the loop over unit_groups.items(), from key k on
RECURSIVE consolidate_units(_, _, _)
consolidate_units(ingredient_list, keys, k) ==
    IF k > Len(keys) THEN <<>>
    ELSE LET group == SelectSeq(ingredient_list, LAMBDA ing : unit_key(ing) = keys[k])
         IN  (IF Len(group) = 1 THEN <<group[1]>> ELSE <<consolidated_ingredient(group)>>)
             \o consolidate_units(ingredient_list, keys, k + 1)

consolidate_ingredient_group(ingredient_list) ==
    IF Len(ingredient_list) <= 1 THEN ingredient_list
    ELSE consolidate_units(ingredient_list, unit_keys(ingredient_list), 1)

\* a call of combine_quantities in the loop of lines 415-416 raises
consolidate_ingredient_group_raises(ingredient_list) ==
    \E key \in Range(unit_keys(ingredient_list)) :
        LET group == SelectSeq(ingredient_list, LAMBDA ing : unit_key(ing) = key)
        IN  \E k \in 2..Len(group) :
                combine_quantities_raises(fold_quantities(SubSeq(group, 1, k - 1)),
                                          group[k].quantity)

----------------------------------------------------------------------------
(* Shopping list *)

\* the display without the test of used_fallback of line 509
format_shopping_item_parts(ing) ==
    str_join(" ", (IF truthy(ing.quantity) THEN <<ing.quantity[1]>> ELSE <<>>)
                  \o (IF truthy(ing.unit) THEN <<ing.unit[1]>> ELSE <<>>)
                  \o <<ing.raw_ingredient>>)

format_shopping_item(ing) ==
    IF ing.used_fallback THEN ing.raw_ingredient
    ELSE str_join(" ", (IF truthy(ing.quantity) THEN <<ing.quantity[1]>> ELSE <<>>)
                       \o (IF truthy(ing.unit) THEN <<ing.unit[1]>> ELSE <<>>)
                       \o <<ing.raw_ingredient>>)

shopping_item(ing) ==
    [ name |-> ing.raw_ingredient, quantity |-> ing.quantity, unit |-> ing.unit,
      descriptors |-> ing.descriptors, original |-> ing.original_text,
      confidence |-> ing.confidence, shopping_display |-> format_shopping_item(ing),
      used_fallback |-> ing.used_fallback,
      was_combined |-> str_contains(ing.original_text, "Combined:") ]

get_shopping_list_items(records) == [k \in 1..Len(records) |-> shopping_item(records[k])]

get_raw_ingredients_for_search(records) ==
    [k \in 1..Len(records) |-> records[k].raw_ingredient]

----------------------------------------------------------------------------
(* parse_ingredients_list *)

\* ingredient_map[raw_name].append(record), creating the key at the end of
\* the dict when it is new
map_append(map, raw_name, record) ==
    IF \E k \in 1..Len(map) : map[k].key = raw_name
    THEN [k \in 1..Len(map) |->
             IF map[k].key = raw_name
             THEN [key |-> raw_name, list |-> Append(map[k].list, record)]
             ELSE map[k]]
    ELSE Append(map, [key |-> raw_name, list |-> <<record>>])

\* the second pass: the loop over ingredient_map.items(), from entry k on
RECURSIVE second_pass(_, _)
second_pass(map, k) ==
    IF k > Len(map) THEN <<>>
    ELSE (IF Len(map[k].list) = 1 THEN <<map[k].list[1]>>
          ELSE consolidate_ingredient_group(map[k].list))
         \o second_pass(map, k + 1)

\* lines 453-457 on records already parsed: the dict ingredient_map
RECURSIVE group_by_name(_)
group_by_name(records) ==
    IF records = <<>> THEN <<>>
    ELSE LET last == records[Len(records)]
         IN  map_append(group_by_name(SubSeq(records, 1, Len(records) - 1)),
                        last.raw_ingredient, last)

\* the consolidation of a list of records: grouping by raw_ingredient, then
\* the second pass
consolidation_pass(records) == second_pass(group_by_name(records), 1)

\* a call of consolidate_ingredient_group in the second pass raises
second_pass_raises(map) ==
    \E k \in 1..Len(map) :
        Len(map[k].list) > 1 /\ consolidate_ingredient_group_raises(map[k].list)

----------------------------------------------------------------------------
(* Inputs *)

MaxLines == 2
MaxLinePieces == 2
MaxOriginalPieces == 2
MaxParsedPieces == 2
MaxNamePieces == 3

\* every concatenation of at most n pieces
RECURSIVE Concatenations(_, _)
Concatenations(pieces, n) ==
    IF n = 0 THEN {""}
    ELSE LET shorter == Concatenations(pieces, n - 1)
         IN  shorter \cup {piece \o t : piece \in pieces, t \in shorter}

RECURSIVE ListsUpTo(_, _)
ListsUpTo(S, n) ==
    IF n = 0 THEN {<<>>}
    ELSE LET shorter == ListsUpTo(S, n - 1)
         IN  shorter \cup {<<x>> \o t : x \in S, t \in shorter}

ParserRaises ==
    [ raises |-> TRUE, amount |-> <<>>, name |-> [kind |-> "str", text |-> ""],
      preparation |-> None, comment |-> None ]

ParserReturns(amount, name, preparation, comment) ==
    [ raises |-> FALSE, amount |-> amount, name |-> name,
      preparation |-> preparation, comment |-> comment ]

NameList(text, confidence) ==
    [kind |-> "list", items |-> << [text |-> text, confidence |-> confidence] >>]

NoName == {[kind |-> "list", items |-> <<>>], [kind |-> "str", text |-> ""]}

Amount(quantity, unit) == << [quantity |-> quantity, unit |-> unit] >>

Confidences == {0, 59, 60, 61, 100}

Thresholds == {CONFIDENCE_THRESHOLD, 100}

\* parse_ingredient_structured, one call
LineTexts ==
    Concatenations({" ", "2 ", "eggplant", "Coconut Milk", "flour", "water"}, MaxLinePieces)

LineParsedNames ==
    {"eggs", "Egg", "eggs*", "large eggs ", "eggplant", "milk", "Coconut Milk", "flour",
     "water", "watermelon", " ", "*"}

LineAmounts ==
    {<<>>, Amount(Some("3/2"), Some("cup")), Amount(Some("1-2"), None),
     Amount(None, Some("tbsp")), Amount(Some(""), Some(""))}

LineParserResults ==
    {ParserRaises}
    \cup {ParserReturns(a, n, None, None) : a \in LineAmounts, n \in NoName}
    \cup {ParserReturns(a, NameList(t, c), None, None) :
              a \in LineAmounts, t \in LineParsedNames, c \in Confidences}
    \cup {ParserReturns(a, [kind |-> "str", text |-> t], Some("finely diced, (a)"), Some("to taste")) :
              a \in LineAmounts, t \in LineParsedNames}

\* check_dietary_misparse, one call
OriginalTexts ==
    Concatenations({" ", "2 ", "egg", "s", "eggplant", "Flax egg", "coconut milk"},
                   MaxOriginalPieces)

ParsedNames == Concatenations({" ", "egg", "s", "Milk", "y"}, MaxParsedPieces)

\* normalize_raw_ingredient, one call
IngredientNames ==
    Concatenations({" ", "*", "egg", "s", "plant", "Large ", "Water", "water", "melon", "sea salt"},
                   MaxNamePieces)

\* parse_ingredients_list
ListLines ==
    {"2 medium eggplant", "3 large eggs", " flour ", "2 cups flour", "water", "  "}

\* the names parse_ingredient may find in a line of ListLines
ListParsedNames(line) ==
    IF line = "2 medium eggplant" THEN {"eggplant", "eggs", "eggs*"}
    ELSE IF line = "3 large eggs" THEN {"large eggs", "Eggs"}
    ELSE IF line = "water" THEN {"water", "Hot Water*"}
    ELSE IF line = " flour " THEN {"flour", "*"}
    ELSE {"flour"}

ListParserResults(line) ==
    {ParserRaises}
    \cup {ParserReturns(a, NameList(t, c), None, None) :
              a \in {<<>>, Amount(Some("1/2"), Some("cup"))}
                    \cup (IF line = "2 cups flour"
                          THEN {Amount(Some("2"), None), Amount(None, Some("tbsp"))}
                          ELSE {}),
              t \in ListParsedNames(line),
              c \in {30, 95}}

\* number texts
MaxTextNumerator == 10
MaxTextDenominator == 8

\* str(n) + "/" + str(d)
PlainFraction(n, d) == str_of_int(n) \o "/" \o str_of_int(d)

PlainFractions ==
    {PlainFraction(n, d) : n \in 0..MaxTextNumerator, d \in 0..MaxTextDenominator}

Glyphs == {UNICODE_TO_FRACTION[k][1] : k \in 1..Len(UNICODE_TO_FRACTION)}

WholeDigits == {"", "0", "1", "2", "12", "007", "999"}

DecimalDigits ==
    {"", "5", "25", "75", "125", "2", "50", "375", "100", "000001", "999999"}

\* more decimal places than six
LongDecimalDigits == {"0000001", "0000004", "5000000"}

DecimalTexts ==
    {w \o "." \o f : w \in WholeDigits, f \in DecimalDigits}
    \cup {w \o "." \o f : w \in {"", "0", "1", "12"}, f \in LongDecimalDigits}

\* combine_quantities, one call
Quantities ==
    {None, Some("")}
    \cup {Some(t) : t \in {PlainFraction(n, d) : n \in 0..3, d \in 0..MaxTextDenominator}}
    \cup {Some(t) : t \in Glyphs}
    \cup {Some(t) : t \in {"1", "2", "10", "1 {1/2}", "2{1/2}", "abc", "some", "1-2", " 1 ",
                           "1/2-", "0.5", "+1", "-1/2", "1.5e1", "1 + 2", "/", "1/"}}

\* convert_to_unicode_fraction, one call
FractionTexts ==
    PlainFractions \cup DecimalTexts \cup Glyphs
    \cup {str_of_int(n) : n \in 0..MaxTextNumerator}
    \cup {"", "abc", " 3/2 ", "-3/2", "+5/4", "1 1/2", "1.5e1", "1.5/2", "1.2.3",
          "1/", ".", "1.0e999", "-2.5E+400"}

\* normalize_fractions_for_parsing, one call, and a second call on its result
MaxTextPieces == 3

QuantityTexts ==
    Concatenations({"2", "10", "{1/2}", "{1/3}", "{7/8}", "1/2", "-", " ", "inch"}, MaxTextPieces)

\* the consolidation pass: records as parse_ingredient_structured returns them
MaxRecords == 3

Parsed(raw, qty, u, descr, orig, conf) ==
    StructuredIngredient(raw, qty, u, descr, orig, conf, FALSE)

ConsolidationRecords ==
    { Parsed("flour", Some("1"), Some("cup"), <<"sifted">>, "1 cup flour, sifted", 95),
      Parsed("flour", Some("{1/2}"), Some("cup"), <<"fine", "sifted">>,
             "{1/2} cup flour, fine sifted", 70),
      Parsed("flour", Some("1 {1/2}"), Some("cup"), <<>>, "1 {1/2} cups flour", 95),
      Parsed("flour", None, Some("cup"), <<"sifted">>, "cup of flour, sifted", 80),
      Parsed("flour", Some("{1/4}"), Some("tbsp"), <<>>, "{1/4} tbsp flour", 95),
      Parsed("flour", Some("2"), None, <<"fine">>, "2 flour, fine", 95),
      Parsed("flour", Some("1"), Some("unitless"), <<>>, "1 unitless flour", 95),
      fallback_record(" flour ", None, None, 30),
      Parsed("eggs", Some("2"), None, <<"large">>, "2 large eggs", 95),
      Parsed("eggs", Some("1"), None, <<"beaten", "large">>, "1 large egg, beaten", 60),
      parse_failure_record("eggs") }

\* consolidate_ingredient_group, one call: records of one raw_ingredient, of
\* any unit text
GroupRecords ==
    {r \in ConsolidationRecords : r.raw_ingredient = "flour"}
    \cup { Parsed("flour", Some("3"), Some("Cup"), <<>>, "3 Cup flour", 95) }

\* parse_ingredient is not called on a blank line
NotCalled == ParserReturns(<<>>, [kind |-> "str", text |-> ""], None, None)

----------------------------------------------------------------------------
(* parse_ingredients_list followed by get_shopping_list_items *)

Idle == <<>>

Init ==
    /\ pc = "first pass"
    /\ ingredients \in ListsUpTo(ListLines, MaxLines)
    /\ i = 0
    /\ parsed = <<>>
    /\ structured = <<>>
    /\ ingredient_map = <<>>
    /\ structured_ingredients = <<>>
    /\ shopping_items = <<>>
    /\ call = Idle
    /\ ret = Idle

\* lines 449-457: one iteration of the first pass
ParseLine ==
    /\ pc = "first pass"
    /\ i < Len(ingredients)
    /\ \E p \in (IF str_strip(ingredients[i + 1]) = "" THEN {NotCalled}
                ELSE ListParserResults(ingredients[i + 1])) :
         IF parse_ingredient_structured_raises(ingredients[i + 1], p)
         THEN /\ pc' = "raised"
              /\ UNCHANGED <<i, parsed, structured, ingredient_map>>
         ELSE LET result == parse_ingredient_structured(ingredients[i + 1], p,
                                                        CONFIDENCE_THRESHOLD)
              IN  /\ parsed' = Append(parsed, p)
                  /\ structured' = Append(structured, result)
                  /\ ingredient_map' =
                         IF result = None THEN ingredient_map
                         ELSE map_append(ingredient_map, result[1].raw_ingredient, result[1])
                  /\ i' = i + 1
                  /\ pc' = pc
    /\ UNCHANGED <<ingredients, structured_ingredients, shopping_items, call, ret>>

\* lines 463-475: the second pass and the return
Consolidate ==
    /\ pc = "first pass"
    /\ i = Len(ingredients)
    /\ IF second_pass_raises(ingredient_map)
       THEN pc' = "raised" /\ UNCHANGED structured_ingredients
       ELSE structured_ingredients' = second_pass(ingredient_map, 1) /\ pc' = "returned"
    /\ UNCHANGED <<ingredients, i, parsed, structured, ingredient_map, shopping_items, call, ret>>

\* lines 483-504
GetShoppingListItems ==
    /\ pc = "returned"
    /\ shopping_items' = get_shopping_list_items(structured_ingredients)
    /\ pc' = "done"
    /\ UNCHANGED <<ingredients, i, parsed, structured, ingredient_map,
                   structured_ingredients, call, ret>>

Next == ParseLine \/ Consolidate \/ GetShoppingListItems

Spec == Init /\ [][Next]_vars

----------------------------------------------------------------------------
(* One call of a function on drawn arguments *)

InitCall(calls) ==
    /\ pc = "call"
    /\ call \in calls
    /\ ret = Idle
    /\ ingredients = <<>>
    /\ i = 0
    /\ parsed = <<>>
    /\ structured = <<>>
    /\ ingredient_map = <<>>
    /\ structured_ingredients = <<>>
    /\ shopping_items = <<>>

Return(value) ==
    /\ pc = "call"
    /\ ret' = value
    /\ pc' = "returned"
    /\ UNCHANGED <<ingredients, i, parsed, structured, ingredient_map,
                   structured_ingredients, shopping_items, call>>

\* the call ends with an exception
Raise ==
    /\ pc = "call"
    /\ pc' = "raised"
    /\ UNCHANGED <<ingredients, i, parsed, structured, ingredient_map,
                   structured_ingredients, shopping_items, call, ret>>

InitLine ==
    InitCall([ingredient_text : LineTexts, parser : LineParserResults,
              confidence_threshold : Thresholds])

ParseIngredientStructured ==
    IF parse_ingredient_structured_raises(call.ingredient_text, call.parser)
    THEN Raise
    ELSE Return(parse_ingredient_structured(call.ingredient_text, call.parser,
                                            call.confidence_threshold))

NextLine == ParseIngredientStructured

SpecLine == InitLine /\ [][NextLine]_vars

InitConsolidate == InitCall([records : ListsUpTo(ConsolidationRecords, MaxRecords)])

\* the consolidation of the records of the first pass
ConsolidationPass ==
    IF second_pass_raises(group_by_name(call.records))
    THEN Raise
    ELSE Return(consolidation_pass(call.records))

\* the consolidation of the list the pass returned
ConsolidateAgain ==
    /\ pc = "returned"
    /\ structured_ingredients' = consolidation_pass(ret)
    /\ pc' = "done"
    /\ UNCHANGED <<ingredients, i, parsed, structured, ingredient_map, shopping_items,
                   call, ret>>

NextConsolidate == ConsolidationPass \/ ConsolidateAgain

SpecConsolidate == InitConsolidate /\ [][NextConsolidate]_vars

InitGroup == InitCall([records : ListsUpTo(GroupRecords, MaxRecords)])

ConsolidateIngredientGroup ==
    IF consolidate_ingredient_group_raises(call.records)
    THEN Raise
    ELSE Return(consolidate_ingredient_group(call.records))

NextGroup == ConsolidateIngredientGroup

SpecGroup == InitGroup /\ [][NextGroup]_vars

InitCombine == InitCall([qty1 : Quantities, qty2 : Quantities])

CombineQuantities ==
    IF combine_quantities_raises(call.qty1, call.qty2)
    THEN Raise
    ELSE Return(combine_quantities(call.qty1, call.qty2))

NextCombine == CombineQuantities

SpecCombine == InitCombine /\ [][NextCombine]_vars

InitConvert == InitCall([fraction_str : FractionTexts])

ConvertToUnicodeFraction ==
    IF convert_to_unicode_fraction_raises(call.fraction_str)
    THEN Raise
    ELSE Return(convert_to_unicode_fraction(call.fraction_str))

NextConvert == ConvertToUnicodeFraction

SpecConvert == InitConvert /\ [][NextConvert]_vars

InitFractions == InitCall([text : QuantityTexts])

NormalizeFractionsForParsing == Return(normalize_fractions_for_parsing(call.text))

\* a second call, on the text the first call returned
NormalizeAgain ==
    /\ pc = "returned"
    /\ call' = [text |-> call.text, argument |-> ret]
    /\ ret' = normalize_fractions_for_parsing(ret)
    /\ pc' = "normalized"
    /\ UNCHANGED <<ingredients, i, parsed, structured, ingredient_map,
                   structured_ingredients, shopping_items>>

\* convert_to_unicode_fraction on the text the first call returned
ConvertNormalized ==
    /\ pc = "returned"
    /\ call' = [text |-> call.text, argument |-> ret]
    /\ IF convert_to_unicode_fraction_raises(ret)
       THEN pc' = "raised" /\ UNCHANGED ret
       ELSE pc' = "converted" /\ ret' = convert_to_unicode_fraction(ret)
    /\ UNCHANGED <<ingredients, i, parsed, structured, ingredient_map,
                   structured_ingredients, shopping_items>>

NextFractions == NormalizeFractionsForParsing \/ NormalizeAgain \/ ConvertNormalized

SpecFractions == InitFractions /\ [][NextFractions]_vars

InitMisparse == InitCall([original_text : OriginalTexts, parsed_name : ParsedNames])

CheckDietaryMisparse ==
    Return(check_dietary_misparse(call.original_text, call.parsed_name))

NextMisparse == CheckDietaryMisparse

SpecMisparse == InitMisparse /\ [][NextMisparse]_vars

InitNormalize == InitCall([ingredient_name : IngredientNames])

NormalizeRawIngredient == Return(normalize_raw_ingredient(call.ingredient_name))

NextNormalize == NormalizeRawIngredient

SpecNormalize == InitNormalize /\ [][NextNormalize]_vars

----------------------------------------------------------------------------
(* Properties of parse_ingredient_structured (SpecLine) *)

all_space(s) == \A k \in 1..Len(s) : is_space(CharAt(s, k))

\* t is s without its leading and trailing whitespace
IsTrimOf(t, s) ==
    /\ t = "" \/ (~is_space(CharAt(t, 1)) /\ ~is_space(CharAt(t, Len(t))))
    /\ \E k \in 0..(Len(s) - Len(t)) :
          /\ SubSeq(s, k + 1, k + Len(t)) = t
          /\ all_space(SubSeq(s, 1, k))
          /\ all_space(SubSeq(s, k + Len(t) + 1, Len(s)))

LineReturned == pc = "returned" /\ ~all_space(call.ingredient_text)

\* the parser returned, with a non-empty name
NameExtracted == ~call.parser.raises /\ truthy(extract_name(call.parser))

SafetyFilterFires ==
    check_dietary_misparse(call.ingredient_text, extract_name(call.parser)[1])[1]

\* the quantity and the unit of the parser's first amount, as a record shows them
ParsedQuantity ==
    IF call.parser.amount = <<>> THEN None
    ELSE IF call.parser.amount[1].quantity \in {None, Some("")} THEN None
    ELSE Some(convert_to_unicode_fraction(call.parser.amount[1].quantity[1]))

ParsedUnit ==
    IF call.parser.amount = <<>> THEN None
    ELSE IF call.parser.amount[1].unit = Some("") THEN None
    ELSE call.parser.amount[1].unit

\* the confidence the parser reported for the name (1.0 when it reported none)
ReportedConfidence ==
    IF call.parser.name.kind = "list" THEN call.parser.name.items[1].confidence ELSE 100

\* C1: a record returned with used_fallback = true has raw_ingredient equal to
\* the trimmed input line and original_text equal to the untrimmed input line.
C1_FallbackKeepsLine ==
    (pc = "returned" /\ ret # None /\ ret[1].used_fallback)
        => /\ IsTrimOf(ret[1].raw_ingredient, call.ingredient_text)
           /\ ret[1].original_text = call.ingredient_text

\* a fallback record of a line that has surrounding whitespace
C1_Witness ==
    /\ pc = "returned" /\ ret # None /\ ret[1].used_fallback
    /\ ret[1].raw_ingredient # call.ingredient_text
    /\ ~call.parser.raises

\* C6: a name was extracted and the safety filter fires: the record is a
\* Fallback with the trimmed line as raw_ingredient, no descriptors, the parsed
\* quantity and unit, and the parser's reported confidence.
C6_SafetyOverrideRecord ==
    (LineReturned /\ NameExtracted /\ SafetyFilterFires)
        => /\ ret # None
           /\ ret[1].used_fallback
           /\ IsTrimOf(ret[1].raw_ingredient, call.ingredient_text)
           /\ ret[1].descriptors = <<>>
           /\ ret[1].quantity = ParsedQuantity
           /\ ret[1].unit = ParsedUnit
           /\ ret[1].confidence = ReportedConfidence

\* the filter fired on a confidently parsed name that came with an amount
C6_Witness ==
    /\ LineReturned /\ NameExtracted /\ SafetyFilterFires
    /\ ReportedConfidence >= call.confidence_threshold
    /\ ret[1].quantity # None /\ ret[1].unit # None
    /\ ret[1].raw_ingredient # extract_name(call.parser)[1]

C8_LowConfidenceFallback ==
    (LineReturned /\ NameExtracted /\ ~SafetyFilterFires)
        => /\ (ret # None /\ ret[1].used_fallback)
                  <=> ReportedConfidence < call.confidence_threshold
           /\ (ReportedConfidence < call.confidence_threshold)
                  => /\ ret[1].quantity = ParsedQuantity
                     /\ ret[1].unit = ParsedUnit
                     /\ ret[1].confidence = ReportedConfidence

\* a confidence equal to the threshold gives a record that is no fallback
C8_Witness ==
    /\ LineReturned /\ NameExtracted /\ ~SafetyFilterFires
    /\ ReportedConfidence = call.confidence_threshold
    /\ call.confidence_threshold = CONFIDENCE_THRESHOLD
    /\ ret # None /\ ~ret[1].used_fallback

----------------------------------------------------------------------------
(* Properties of check_dietary_misparse (SpecMisparse) *)

Reverse(seq) == [k \in 1..Len(seq) |-> seq[Len(seq) + 1 - k]]

\* sub occurs in s, starting after position k
OccursAt(s, sub, k) == k >= 0 /\ k + Len(sub) <= Len(s) /\ SubSeq(s, k + 1, k + Len(sub)) = sub

Occurs(s, sub) == \E k \in 0..Len(s) : OccursAt(s, sub, k)

IsSuffix(s, sub) == OccursAt(s, sub, Len(s) - Len(sub))

OriginalLowered == str_strip(str_lower(call.original_text))

ParsedLowered == str_strip(str_lower(call.parsed_name))

\* (a): some original_contains phrase of the rule is a substring of the original
RuleOriginal(rule) ==
    \E k \in 1..Len(rule.original_contains) : Occurs(OriginalLowered, rule.original_contains[k])

\* (b): the parsed name equals or ends with some parsed_matches target of the rule
RuleParsed(rule) ==
    \E k \in 1..Len(rule.parsed_matches) :
        \/ ParsedLowered = rule.parsed_matches[k]
        \/ IsSuffix(ParsedLowered, rule.parsed_matches[k])

\* the parsed name contains a target of the rule, but not at its end
RuleParsedInside(rule) ==
    /\ ~RuleParsed(rule)
    /\ \E k \in 1..Len(rule.parsed_matches) : Occurs(ParsedLowered, rule.parsed_matches[k])

Rules == {DIETARY_MISPARSE_PATTERNS[k] : k \in 1..Len(DIETARY_MISPARSE_PATTERNS)}

\* C4: shouldFallback is true exactly when one rule satisfies both (a) and
\* (b); the table read in the opposite order gives the same answer.
C4_FiresIffSomeRule ==
    pc = "returned"
        => /\ ret[1] <=> \E rule \in Rules : RuleOriginal(rule) /\ RuleParsed(rule)
           /\ ret[1] = check_dietary_misparse_with(Reverse(DIETARY_MISPARSE_PATTERNS),
                                                   call.original_text, call.parsed_name)[1]

\* the original matches a rule whose target lies inside the parsed name only
C4_Witness ==
    /\ pc = "returned"
    /\ \E rule \in Rules : RuleOriginal(rule) /\ RuleParsedInside(rule)
    /\ ret[1] = FALSE

HasToken(text, tokens) ==
    \E k \in 1..Len(str_split(str_lower(text))) : str_split(str_lower(text))[k] \in tokens

\* the text mentions eggs as the token egg or eggs, and no eggplant
OnlyEggTokens ==
    /\ HasToken(call.original_text, {"egg", "eggs"})
    /\ ~Occurs(str_lower(call.original_text), "eggplant")

EggSubstitutes == {"egg replacer", "flax egg", "chia egg"}

\* C5 as stated: 'eggplant' in the text makes ('eggs') fall back; a text with
\* only egg/eggs tokens and no eggplant does not.
C5_EggTokensNeverFallBack ==
    (pc = "returned" /\ call.parsed_name = "eggs")
        => /\ Occurs(str_lower(call.original_text), "eggplant") => ret[1]
           /\ OnlyEggTokens => ~ret[1]

\* C5 (amended): 'eggplant' in the text makes ('eggs') fall back; a text with
\* only egg/eggs tokens, no eggplant and no egg-substitute phrase
\* ('egg replacer', 'flax egg', 'chia egg') does not.
C5_EggplantProtected ==
    (pc = "returned" /\ call.parsed_name = "eggs")
        => /\ Occurs(str_lower(call.original_text), "eggplant") => ret[1]
           /\ (/\ OnlyEggTokens
               /\ \A phrase \in EggSubstitutes : ~Occurs(str_lower(call.original_text), phrase))
                  => ~ret[1]

\* a genuine egg line, parsed as eggs, is let through
C5_Witness ==
    /\ pc = "returned" /\ call.parsed_name = "eggs"
    /\ OnlyEggTokens
    /\ \A phrase \in EggSubstitutes : ~Occurs(str_lower(call.original_text), phrase)
    /\ Len(str_split(call.original_text)) > 1
    /\ ret[1] = FALSE

----------------------------------------------------------------------------
(* Properties of normalize_raw_ingredient (SpecNormalize) *)

\* the name in lower case, without asterisks and surrounding whitespace
Cleaned == str_strip(str_delete(str_lower(call.ingredient_name), {"*"}))

Groups == {RAW_INGREDIENT_CONSOLIDATION[k] : k \in 1..Len(RAW_INGREDIENT_CONSOLIDATION)}

IsVariant(name, group) == \E k \in 1..Len(group.variations) : group.variations[k] = name

\* C9: a name that is not ignored comes back as a group's canonical name
\* exactly when its cleaned form equals a variant of that group, and as its
\* cleaned form otherwise.
C9_ExactVariantMatch ==
    (pc = "returned" /\ ~Occurs(Cleaned, "water"))
        => /\ ret # None
           /\ \A group \in Groups :
                  ret[1] = group.consolidated_name <=> IsVariant(Cleaned, group)
           /\ (\A group \in Groups : ~IsVariant(Cleaned, group)) => ret[1] = Cleaned

\* a name that contains a variant without being one is kept as it is
C9_Witness ==
    /\ pc = "returned"
    /\ \E group \in Groups :
          \E k \in 1..Len(group.variations) :
              Occurs(Cleaned, group.variations[k]) /\ Cleaned # group.variations[k]
    /\ \A group \in Groups : ~IsVariant(Cleaned, group)
    /\ Cleaned # call.ingredient_name
    /\ ret = Some(Cleaned)

\* the whitespace-separated tokens of the cleaned name
CleanedTokens == Range(str_split(Cleaned))

IgnoredTokens == Range(IGNORED_INGREDIENTS)

\* C11: the ignored set is matched by whole token: the result is None only
\* when a token of the cleaned name is an ignored token, and a name that has
\* an ignored token only inside a longer word is returned.
C11_IgnoredByWholeToken ==
    pc = "returned" => (ret = None => CleanedTokens \cap IgnoredTokens # {})

----------------------------------------------------------------------------
(* Properties of parse_ingredients_list and get_shopping_list_items (Spec) *)

LineNumbers == 1..Len(structured)

IsFallbackLine(k) == structured[k] # None /\ structured[k][1].used_fallback

\* C2: every line that ended in Fallback is shown by a shopping item whose
\* shopping_display is the trimmed text of the line, merged or not.
C2_FallbackLineDisplayed ==
    pc = "done"
        => \A k \in LineNumbers :
               IsFallbackLine(k)
                   => \E m \in 1..Len(shopping_items) :
                          IsTrimOf(shopping_items[m].shopping_display, ingredients[k])

\* a fallback line merged with a parsed line that has a quantity and a unit
C2_Witness ==
    /\ pc = "done"
    /\ \E k, n \in LineNumbers :
          /\ IsFallbackLine(k)
          /\ structured[n] # None /\ ~structured[n][1].used_fallback
          /\ structured[n][1].quantity # None /\ structured[n][1].unit # None
          /\ \E m \in 1..Len(shopping_items) :
                /\ shopping_items[m].was_combined
                /\ shopping_items[m].name = structured[k][1].raw_ingredient
                /\ shopping_items[m].name = structured[n][1].raw_ingredient
                /\ shopping_items[m].unit = structured[n][1].unit
                /\ shopping_items[m].unit = structured[k][1].unit

\* the line contains a protected plant phrase of the rule
ProtectedBy(rule, line) ==
    \E k \in 1..Len(rule.original_contains) :
        Occurs(str_lower(line), rule.original_contains[k])

AnimalNames(rule) == {rule.parsed_matches[k] : k \in 1..Len(rule.parsed_matches)}

\* C3: a line that contains a protected plant phrase never gets a record named
\* as the corresponding animal product, and never shares a record with a line
\* that does not contain the phrase.
C3_ProtectedLineNeverAnimal ==
    \A rule \in Rules :
        \A k \in LineNumbers :
            (ProtectedBy(rule, ingredients[k]) /\ structured[k] # None)
                => /\ structured[k][1].raw_ingredient \notin AnimalNames(rule)
                   /\ \A n \in LineNumbers :
                          (/\ ~ProtectedBy(rule, ingredients[n])
                           /\ structured[n] # None
                           /\ structured[n][1].raw_ingredient \in AnimalNames(rule))
                              => ~can_combine_ingredients(structured[k][1], structured[n][1])

NameOfLine(k) == extract_name(parsed[k])

\* the parser found, in line k, a name in which 'water' appears
WaterNamed(k) ==
    /\ ~all_space(ingredients[k])
    /\ ~parsed[k].raises
    /\ truthy(NameOfLine(k))
    /\ Occurs(str_lower(NameOfLine(k)[1]), "water")

\* the parser's name for line k passes the safety filter and the threshold
Accepted(k) ==
    /\ ~check_dietary_misparse(ingredients[k], NameOfLine(k)[1])[1]
    /\ extract_confidence(parsed[k]) >= CONFIDENCE_THRESHOLD

ScenarioD ==
    /\ pc \in {"returned", "done"}
    /\ ingredients = <<"water", "2 cups flour">>
    /\ WaterNamed(1)
    /\ ~parsed[2].raises /\ NameOfLine(2) = Some("flour")

OnlyFlour ==
    /\ Len(structured_ingredients) = 1
    /\ structured_ingredients[1].raw_ingredient = "flour"

\* C10 as stated: a name in which 'water' appears normalizes to None and its
\* line produces no record, so ['water', '2 cups flour'] yields flour alone.
C10_WaterLineNoRecord ==
    /\ \A k \in LineNumbers :
           WaterNamed(k)
               => /\ normalize_raw_ingredient(NameOfLine(k)[1]) = None
                  /\ structured[k] = None
    /\ ScenarioD => OnlyFlour

\* C10 (amended): a name in which 'water' appears normalizes to None, and its
\* line produces no record when the name passes the safety filter and the
\* confidence threshold; ['water', '2 cups flour'] then yields flour alone.
C10_AcceptedWaterLineDropped ==
    /\ \A k \in LineNumbers :
           WaterNamed(k)
               => /\ normalize_raw_ingredient(NameOfLine(k)[1]) = None
                  /\ Accepted(k) => structured[k] = None
    /\ (ScenarioD /\ Accepted(1) /\ Accepted(2)) => OnlyFlour

\* scenario D with a phrase around the ignored word
C10_Witness ==
    /\ ScenarioD /\ Accepted(1) /\ Accepted(2)
    /\ NameOfLine(1)[1] \notin {"water"}
    /\ OnlyFlour

\* the lines on which parse_ingredient raised
FailedLines == {k \in LineNumbers : ~all_space(ingredients[k]) /\ parsed[k].raises}

Finished == pc \in {"returned", "done"}

\* C12: parse_ingredients_list never raises, whatever parse_ingredient does
\* on a line: a line on which it raises gets its own Fallback record, the
\* lines after it are processed, and the record is in the list returned.
C12_ListNeverRaises ==
    /\ pc # "raised"
    /\ \A k \in FailedLines :
          /\ structured[k] # None
          /\ structured[k][1].used_fallback
          /\ structured[k][1].confidence = 0
          /\ IsTrimOf(structured[k][1].raw_ingredient, ingredients[k])
    /\ Finished =>
          /\ Len(structured) = Len(ingredients)
          /\ \A k \in FailedLines :
                \E n \in 1..Len(structured_ingredients) :
                    /\ structured_ingredients[n].raw_ingredient = structured[k][1].raw_ingredient
                    /\ structured_ingredients[n].used_fallback

\* the parser raised on the first of two lines and the second was parsed
C12_Witness ==
    /\ pc = "returned"
    /\ Len(ingredients) = 2
    /\ 1 \in FailedLines
    /\ structured[2] # None /\ ~structured[2][1].used_fallback
    /\ Len(structured_ingredients) = 2

----------------------------------------------------------------------------
(* Properties of the consolidation pass (SpecConsolidate) *)

Consolidated == pc \in {"returned", "done"}

InputNumbers == 1..Len(call.records)

Outputs == Range(ret)

\* the original texts of the input records numbered in S, in input order
RECURSIVE TextsOf(_, _)
TextsOf(S, k) ==
    IF k > Len(call.records) THEN <<>>
    ELSE (IF k \in S THEN <<call.records[k].original_text>> ELSE <<>>) \o TextsOf(S, k + 1)

\* the audit string of a record merged from the inputs numbered in S
AuditString(S) == "Combined: " \o str_join(", ", TextsOf(S, 1))

\* the sets of inputs an output record can stand for: one input kept as it
\* is, or the inputs its audit string names
Sources(r) ==
    {S \in SUBSET InputNumbers :
        \/ \E k \in InputNumbers : S = {k} /\ r = call.records[k]
        \/ Cardinality(S) >= 2 /\ r.original_text = AuditString(S)}

MergedSources(r) == {S \in Sources(r) : Cardinality(S) >= 2}

\* C13: two inputs are folded into one output record only if they have the
\* same raw_ingredient and equal units (both absent counts as equal).
C13_MergedOnlyIfCombinable ==
    Consolidated =>
        \A r \in Outputs : \A S \in Sources(r) : \A j, k \in S :
            /\ call.records[j].raw_ingredient = call.records[k].raw_ingredient
            /\ call.records[j].unit = call.records[k].unit

Minimum(numbers) == CHOOSE m \in numbers : \A n \in numbers : m <= n

\* C14: a merged record has the minimum confidence of the records merged
\* into it, and used_fallback exactly when one of them has.
C14_PessimisticAggregation ==
    Consolidated =>
        \A r \in Outputs :
            /\ Sources(r) # {}
            /\ \A S \in MergedSources(r) :
                  /\ r.confidence = Minimum({call.records[k].confidence : k \in S})
                  /\ r.used_fallback <=> \E k \in S : call.records[k].used_fallback

\* three records of different confidence, one of them a fallback, merged
C14_Witness ==
    /\ pc = "returned"
    /\ \E r \in Outputs : \E S \in MergedSources(r) :
          /\ Cardinality(S) = 3
          /\ Cardinality({call.records[k].confidence : k \in S}) = 3
          /\ \E k \in S : call.records[k].used_fallback
          /\ \E k \in S : ~call.records[k].used_fallback
          /\ r.confidence # call.records[Minimum(S)].confidence

\* the value of a quantity text: the sum of its whitespace-separated numbers,
\* so that 1 {1/2} is 3/2; None when a part is not a number
RECURSIVE SumOfParts(_)
SumOfParts(parts) ==
    IF parts = <<>> THEN Some(Fraction(0, 1))
    ELSE LET first == fraction_of_str(parts[1])
             others == SumOfParts(Tail(parts))
         IN  IF first = None \/ others = None THEN None
             ELSE Some(fraction_add(first[1], others[1]))

QuantityValue(quantity) ==
    IF quantity = None \/ str_split(quantity[1]) = <<>> THEN None
    ELSE SumOfParts(str_split(normalize_fractions_for_parsing(quantity[1])))

\* the exact sum of the quantities of the inputs numbered from k on in S
RECURSIVE SumOfQuantities(_, _)
SumOfQuantities(S, k) ==
    IF k > Len(call.records) THEN Fraction(0, 1)
    ELSE IF k \in S
         THEN fraction_add(QuantityValue(call.records[k].quantity)[1], SumOfQuantities(S, k + 1))
         ELSE SumOfQuantities(S, k + 1)

\* C15: in a unit group of two or more records whose quantities are all
\* numeric (integers, fractions, glyphs, mixed numbers), the merged quantity
\* is the exact sum, rendered by convert_to_unicode_fraction.
C15_ExactSumOfGroup ==
    Consolidated =>
        \A r \in Outputs : \A S \in MergedSources(r) :
            (\A k \in S : QuantityValue(call.records[k].quantity) # None)
                => r.quantity = Some(convert_to_unicode_fraction(
                                         str_of_fraction(SumOfQuantities(S, 1))))

\* the descriptors of the inputs numbered from k on in S, one list after the other
RECURSIVE DescriptorsOf(_, _)
DescriptorsOf(S, k) ==
    IF k > Len(call.records) THEN <<>>
    ELSE (IF k \in S THEN call.records[k].descriptors ELSE <<>>) \o DescriptorsOf(S, k + 1)

FirstPosition(list, x) == Minimum({k \in 1..Len(list) : list[k] = x})

\* C16: the descriptors of a merged record are those of its members in
\* arrival order, each once, at the place of its first occurrence.
C16_DescriptorsFirstSeen ==
    Consolidated =>
        \A r \in Outputs : \A S \in MergedSources(r) :
            LET all == DescriptorsOf(S, 1)
                kept == r.descriptors
            IN  /\ Range(kept) = Range(all)
                /\ \A j, k \in 1..Len(kept) : j # k => kept[j] # kept[k]
                /\ \A j, k \in 1..Len(kept) :
                       j < k => FirstPosition(all, kept[j]) < FirstPosition(all, kept[k])

\* members repeat a descriptor, in a different position
C16_Witness ==
    /\ pc = "returned"
    /\ \E r \in Outputs : \E S \in MergedSources(r) :
          /\ Len(r.descriptors) >= 2
          /\ Len(DescriptorsOf(S, 1)) > Len(r.descriptors)
          /\ DescriptorsOf(S, 1)[1] # DescriptorsOf(S, 1)[2]

NoDuplicatePairs(records) ==
    \A j, k \in 1..Len(records) :
        (/\ records[j].raw_ingredient = records[k].raw_ingredient
         /\ records[j].unit = records[k].unit) => j = k

\* C17 as stated: a list in which no two records have the same
\* (raw_ingredient, unit) pair comes back from the pass unchanged.
C17_NoDuplicatePairsUnchanged ==
    (pc = "returned" /\ NoDuplicatePairs(call.records)) => ret = call.records

\* C17: the pass applied to the list it returned returns that list unchanged.
C17_IdempotentOnOutput ==
    pc = "done" => structured_ingredients = ret

\* the list consolidated again has a merged record and a record of the same
\* ingredient in another unit
C17_Witness ==
    /\ pc = "done"
    /\ \E j, k \in 1..Len(ret) :
          /\ j # k
          /\ ret[j].raw_ingredient = ret[k].raw_ingredient
          /\ str_startswith(ret[j].original_text, "Combined:")
    /\ ret # call.records

----------------------------------------------------------------------------
(* Properties of combine_quantities (SpecCombine) and of                    *)
(* convert_to_unicode_fraction (SpecConvert)                                *)

\* the numbers n and d in lowest terms
Reduced(n, d) == [n |-> n \div gcd(n, d), d |-> d \div gcd(n, d)]

\* the glyph of a fraction text when the table has one, the text otherwise
GlyphOrPlain(text) ==
    IF \E k \in 1..Len(UNICODE_TO_FRACTION) : UNICODE_TO_FRACTION[k][2] = text
    THEN "{" \o text \o "}"
    ELSE text

\* the display form of n/d (n >= 0, d > 0): the whole number, the fraction
\* below 1, or the whole part, one space and the fractional remainder
Display(n, d) ==
    LET r == Reduced(n, d)
        whole == r.n \div r.d
        rest == r.n % r.d
    IN  IF r.d = 1 THEN str_of_int(r.n)
        ELSE IF whole = 0 THEN GlyphOrPlain(PlainFraction(rest, r.d))
        ELSE str_of_int(whole) \o " " \o GlyphOrPlain(PlainFraction(rest, r.d))

\* the proper fractions n/d, each as plain text and, when the table has it
\* for exactly n/d, as its glyph
ProperFractions ==
    {[text |-> PlainFraction(n, d), n |-> n, d |-> d] :
        n \in 1..MaxTextDenominator, d \in 1..MaxTextDenominator}
    \cup {[text |-> "{" \o PlainFraction(n, d) \o "}", n |-> n, d |-> d] :
        n \in 1..MaxTextDenominator, d \in 1..MaxTextDenominator}

IsProper(a) == a.n < a.d /\ (Head(a.text) = "{" => Some(a.text) \in {Some(g) : g \in Glyphs})

Missing(quantity) == quantity \in {None, Some("")}

Digits(text) == text # "" /\ \A k \in 1..Len(text) : CharAt(text, k) \in DOMAIN DigitValue

\* a text of digits that are not all zero
NonZeroDigits(text) == Digits(text) /\ \E k \in 1..Len(text) : CharAt(text, k) # "0"

\* an unsigned number: digits, digits/digits with a denominator that is not
\* zero, or a decimal with an optional exponent
IsUnsignedNumber(text) ==
    \/ Digits(text)
    \/ \E k \in 2..(Len(text) - 1) :
          /\ CharAt(text, k) = "/"
          /\ Digits(SubSeq(text, 1, k - 1))
          /\ NonZeroDigits(SubSeq(text, k + 1, Len(text)))
    \/ \E k \in 1..Len(text), e \in 1..(Len(text) + 1) :
          /\ CharAt(text, k) = "." /\ k < e
          /\ k > 1 \/ k + 1 < e
          /\ k = 1 \/ Digits(SubSeq(text, 1, k - 1))
          /\ k + 1 = e \/ Digits(SubSeq(text, k + 1, e - 1))
          /\ \/ e = Len(text) + 1
             \/ /\ CharAt(text, e) \in {"e", "E"}
                /\ \/ Digits(SubSeq(text, e + 1, Len(text)))
                   \/ /\ e < Len(text)
                      /\ CharAt(text, e + 1) \in {"+", "-"}
                      /\ Digits(SubSeq(text, e + 2, Len(text)))

\* a quantity is numeric when, with its glyphs written out, it is a number
\* with an optional sign and optional surrounding whitespace
IsNumeric(quantity) ==
    LET text == str_strip(normalize_fractions_for_parsing(quantity[1]))
    IN  /\ text # ""
        /\ IsUnsignedNumber(IF Head(text) \in {"+", "-"} THEN Tail(text) ELSE text)

\* C18: combine_quantities never raises; a missing operand is the additive
\* identity; when an operand is not numeric the result is the text 'a + b'.
C18_CombineDegradesGracefully ==
    /\ pc # "raised"
    /\ pc = "returned" =>
          /\ (Missing(call.qty1) /\ Missing(call.qty2)) => ret = None
          /\ (Missing(call.qty1) /\ ~Missing(call.qty2)) => ret = call.qty2
          /\ (~Missing(call.qty1) /\ Missing(call.qty2)) => ret = call.qty1
          /\ (~Missing(call.qty1) /\ ~Missing(call.qty2)) =>
                (ret = Some(call.qty1[1] \o " + " \o call.qty2[1])
                    <=> (~IsNumeric(call.qty1) \/ ~IsNumeric(call.qty2)))

\* a number and a text that is not one
C18_Witness ==
    /\ pc = "returned"
    /\ ~Missing(call.qty1) /\ ~Missing(call.qty2)
    /\ IsNumeric(call.qty1) /\ ~IsNumeric(call.qty2)
    /\ ret = Some(call.qty1[1] \o " + " \o call.qty2[1])

\* C19: the sum of two proper fractions, plain or glyph, is rendered exactly:
\* as the glyph of the reduced sum when there is one, as the whole number
\* when the sum is whole, as a mixed number when it is above 1.
C19_ProperFractionSum ==
    pc = "returned" =>
        \A a \in {x \in ProperFractions : IsProper(x) /\ call.qty1 = Some(x.text)} :
            \A b \in {x \in ProperFractions : IsProper(x) /\ call.qty2 = Some(x.text)} :
                ret = Some(Display(a.n * b.d + b.n * a.d, a.d * b.d))

\* a glyph and a plain fraction whose sum is a mixed number with a glyph
C19_Witness ==
    /\ pc = "returned"
    /\ call.qty1 \in {Some(g) : g \in Glyphs}
    /\ \E a \in ProperFractions : IsProper(a) /\ Head(a.text) # "{" /\ call.qty2 = Some(a.text)
    /\ Len(ret[1]) > 2
    /\ SubSeq(ret[1], 1, 3) = "1 {"

\* the value n/d of the text of a call: an integer, a fraction n/d with
\* d > 0, or a decimal of at most max_decimals digits after the point and
\* at most max_whole digits before it
ValuesOfText(text, max_whole, max_decimals) ==
    {[n |-> n, d |-> 1] : n \in {m \in 0..MaxTextNumerator : text = str_of_int(m)}}
    \cup {v \in [n : 0..MaxTextNumerator, d : 1..MaxTextDenominator] :
              text = PlainFraction(v.n, v.d)}
    \cup {[n |-> int_of("0" \o wf[1] \o wf[2]), d |-> power_of_ten(Len(wf[2]))] :
              wf \in {x \in WholeDigits \X (DecimalDigits \cup LongDecimalDigits) :
                         /\ text = x[1] \o "." \o x[2]
                         /\ x[1] \o x[2] # ""
                         /\ Len(x[1]) <= max_whole /\ Len(x[2]) <= max_decimals}}

\* C20 as stated: every integer, fraction and decimal text is rendered in
\* display form with its exact value.
C20_RenderedValueIsInput ==
    pc = "returned" =>
        \A v \in ValuesOfText(call.fraction_str, 3, 7) : ret = Display(v.n, v.d)

\* C20: the same for integers, fractions, and decimals of at most three
\* digits before and six digits after the point.
C20_DisplayForm ==
    pc = "returned" =>
        \A v \in ValuesOfText(call.fraction_str, 3, 6) : ret = Display(v.n, v.d)

\* a decimal above 1 whose remainder has a glyph
C20_Witness ==
    /\ pc = "returned"
    /\ str_contains(call.fraction_str, ".")
    /\ ValuesOfText(call.fraction_str, 3, 6) # {}
    /\ Len(ret) > 3
    /\ SubSeq(ret, 1, 4) = "12 {"

\* a text that is not a number: with its surrounding whitespace and one
\* leading sign removed it is not an unsigned number
Unparsable(text) ==
    \/ str_strip(text) = ""
    \/ ~IsUnsignedNumber(IF Head(str_strip(text)) \in {"+", "-"}
                         THEN Tail(str_strip(text)) ELSE str_strip(text))

\* C21: convert_to_unicode_fraction never raises, and a text that is not a
\* number is returned unchanged.
C21_ConvertNeverRaises ==
    /\ pc # "raised"
    /\ (pc = "returned" /\ Unparsable(call.fraction_str)) => ret = call.fraction_str

----------------------------------------------------------------------------
(* Properties of normalize_fractions_for_parsing (SpecFractions) *)

WholeNumbers == {"2", "10", "210", "102"}

\* the canonical display forms: a glyph, a whole number, or a whole number,
\* one space and a glyph
CanonicalForms ==
    Glyphs \cup WholeNumbers \cup {w \o " " \o g : w \in WholeNumbers, g \in Glyphs}

\* C22: a text in canonical display form is the conversion of its
\* normalization.
C22_RoundTrip ==
    (pc = "converted" /\ call.text \in CanonicalForms) => ret = call.text

\* the place of a glyph in the table
GlyphIndex(glyph) == CHOOSE k \in 1..Len(UNICODE_TO_FRACTION) : UNICODE_TO_FRACTION[k][1] = glyph

\* the text with each glyph written as its fraction, after one space when
\* the glyph directly follows a digit and, if chained, also when it directly
\* follows a glyph that stands before it in the table.  before is -1
\* after a digit, the table index of the glyph just read, or 0.
RECURSIVE Written(_, _, _)
Written(s, before, chained) ==
    IF s = "" THEN ""
    ELSE IF Head(s) = "{"
         THEN LET close == CHOOSE k \in 1..Len(s) :
                               CharAt(s, k) = "}" /\ \A j \in 1..(k - 1) : CharAt(s, j) # "}"
                  k == GlyphIndex(SubSeq(s, 1, close))
              IN  (IF before = -1 \/ (chained /\ before \in 1..(k - 1))
                   THEN " " ELSE "")
                  \o UNICODE_TO_FRACTION[k][2]
                  \o Written(SubSeq(s, close + 1, Len(s)), k, chained)
         ELSE Head(s) \o Written(Tail(s), IF Digits(Head(s)) THEN -1 ELSE 0, chained)

\* position k of t directly follows a fraction 'n/d'
AfterFraction(t, k) ==
    \E b \in 2..(k - 2) :
        /\ CharAt(t, b) = "/"
        /\ Digits(CharAt(t, b - 1))
        /\ Digits(SubSeq(t, b + 1, k - 1))

\* the first k characters of t with a space for each hyphen that directly
\* follows a fraction
RECURSIVE Repaired(_, _)
Repaired(t, k) ==
    IF k = 0 THEN ""
    ELSE Repaired(t, k - 1)
         \o (IF CharAt(t, k) = "-" /\ AfterFraction(t, k) THEN " " ELSE CharAt(t, k))

Normalized(text, chained) == Repaired(Written(text, 0, chained), Len(Written(text, 0, chained)))

\* C23 as stated: the result has no glyph; it is the text with each glyph
\* written as 'n/d', after one space exactly when the glyph directly follows
\* a digit, and with a space for each hyphen directly after a fraction; a
\* second application changes nothing.
C23_NormalizedText ==
    /\ pc = "returned" => (~str_contains(ret, "{") /\ ret = Normalized(call.text, FALSE))
    /\ pc = "normalized" => ret = call.argument

\* C23: the same, where a glyph is also written after one space when it
\* directly follows a glyph that stands before it in the table.
C23_NormalizedChained ==
    /\ pc = "returned" => (~str_contains(ret, "{") /\ ret = Normalized(call.text, TRUE))
    /\ pc = "normalized" => ret = call.argument

\* a glyph directly after a digit and directly before a hyphen, normalized
\* twice
C23_Witness ==
    /\ pc = "normalized"
    /\ str_contains(call.text, "2{1/2}-")
    /\ str_contains(ret, "2 1/2 ")

----------------------------------------------------------------------------
(* Properties of format_shopping_item (Spec) *)

\* a quantity or unit that is neither absent nor empty
Present(field) == field # None /\ field # Some("")

\* C24: the display of a fallback record is its raw_ingredient; the display
\* of any other record is its quantity, unit and raw_ingredient, those
\* present, in that order with one space between them.
C24_ShoppingDisplay ==
    pc = "done" =>
        \A m \in 1..Len(shopping_items) :
            LET item == shopping_items[m]
            IN  /\ item.used_fallback => item.shopping_display = item.name
                /\ ~item.used_fallback =>
                      item.shopping_display =
                          (IF Present(item.quantity) THEN item.quantity[1] \o " " ELSE "")
                          \o (IF Present(item.unit) THEN item.unit[1] \o " " ELSE "")
                          \o item.name

\* a fallback record with a quantity and a unit next to a parsed record
\* with a quantity and no unit
C24_Witness ==
    /\ pc = "done"
    /\ \E m, n \in 1..Len(shopping_items) :
          /\ shopping_items[m].used_fallback
          /\ Present(shopping_items[m].quantity) /\ Present(shopping_items[m].unit)
          /\ ~shopping_items[n].used_fallback
          /\ Present(shopping_items[n].quantity) /\ ~Present(shopping_items[n].unit)
          /\ shopping_items[n].shopping_display = "2 flour"

----------------------------------------------------------------------------
(* Properties of the records (Spec) *)

\* the parser's name for line k is nothing but whitespace and asterisks
EmptyNamed(k) ==
    /\ ~all_space(ingredients[k])
    /\ ~parsed[k].raises
    /\ truthy(NameOfLine(k))
    /\ \A j \in 1..Len(NameOfLine(k)[1]) : CharAt(NameOfLine(k)[1], j) \in {" ", "*"}

\* C25: every record of a line and every record of the list returned has a
\* raw_ingredient that is not empty; a line whose accepted name cleans to
\* the empty string has no record.
C25_NameNeverEmpty ==
    /\ \A k \in LineNumbers :
          /\ structured[k] # None => structured[k][1].raw_ingredient # ""
          /\ (EmptyNamed(k) /\ Accepted(k)) => structured[k] = None
    /\ \A m \in 1..Len(structured_ingredients) :
          structured_ingredients[m].raw_ingredient # ""

\* a line whose accepted name is an asterisk, next to a line with a record
C25_Witness ==
    /\ Finished
    /\ \E k \in LineNumbers : EmptyNamed(k) /\ Accepted(k) /\ structured[k] = None
    /\ Len(structured_ingredients) = 1

----------------------------------------------------------------------------
(* Terminal outcomes of parse_ingredient_structured (SpecLine) *)

\* the parser's name, cleaned by the name normalizer
NormalizedName == normalize_raw_ingredient(extract_name(call.parser)[1])

LowConfidence == ReportedConfidence < call.confidence_threshold

\* C27: every call returns, with exactly one outcome decided in the order
\* blank input (Empty, whatever the parser would do), missing name or parser
\* failure (Fallback), safety filter or low confidence (Fallback), name
\* normalizer (Dropped when it returns nothing, Parsed otherwise).
C27_OneTerminalOutcome ==
    /\ pc # "raised"
    /\ pc = "returned" =>
          IF all_space(call.ingredient_text) THEN ret = None
          ELSE IF ~NameExtracted THEN ret # None /\ ret[1].used_fallback
          ELSE IF SafetyFilterFires \/ LowConfidence
               THEN ret # None /\ ret[1].used_fallback
               ELSE IF ~truthy(NormalizedName) THEN ret = None
                    ELSE ret # None /\ ~ret[1].used_fallback

\* an ignored name below the threshold is a Fallback, not Dropped
C27_Witness ==
    /\ LineReturned /\ NameExtracted /\ ~SafetyFilterFires /\ LowConfidence
    /\ ~truthy(NormalizedName)
    /\ ret # None /\ ret[1].used_fallback

\* some protected plant phrase of the table occurs in the line and in the
\* name the parser extracted from it
KeepsPlantPhrase ==
    \E rule \in Rules :
        \E k \in 1..Len(rule.original_contains) :
            /\ Occurs(str_lower(call.ingredient_text), rule.original_contains[k])
            /\ Occurs(str_lower(extract_name(call.parser)[1]), rule.original_contains[k])

\* C28: the parser's name keeps the protected plant phrase of the line and
\* its confidence reaches the threshold: the safety filter does not fire, and
\* the record is no fallback and is named by the normalized parsed name.
C28_PlantNameKept ==
    (LineReturned /\ NameExtracted /\ KeepsPlantPhrase /\ ~LowConfidence)
        => /\ ~SafetyFilterFires
           /\ ret # None
           /\ ~ret[1].used_fallback
           /\ Some(ret[1].raw_ingredient) = NormalizedName

----------------------------------------------------------------------------
(* Order and number of the records of the pass (SpecConsolidate) *)

PairOf(r) == <<r.raw_ingredient, r.unit>>

\* the number of the first input record for which test holds
FirstInput(test) == CHOOSE k \in InputNumbers : test[k] /\ \A j \in 1..(k - 1) : ~test[j]

FirstNamed(r) ==
    FirstInput([k \in InputNumbers |-> call.records[k].raw_ingredient = r.raw_ingredient])

FirstPaired(r) == FirstInput([k \in InputNumbers |-> PairOf(call.records[k]) = PairOf(r)])

\* C29: the pass returns exactly one record for each distinct
\* (raw_ingredient, unit) pair of its input, ordered by the first occurrence
\* of the raw_ingredient and, within one raw_ingredient, by the first
\* occurrence of the unit.
C29_OnePerPairInOrder ==
    pc = "returned" =>
        /\ {PairOf(ret[m]) : m \in 1..Len(ret)} = {PairOf(call.records[k]) : k \in InputNumbers}
        /\ \A m, n \in 1..Len(ret) :
               m < n => \/ FirstNamed(ret[m]) < FirstNamed(ret[n])
                        \/ /\ ret[m].raw_ingredient = ret[n].raw_ingredient
                           /\ FirstPaired(ret[m]) < FirstPaired(ret[n])

\* what a list of records says, whatever its order, its descriptors and its
\* audit strings
Tuples(records) ==
    {<<records[k].raw_ingredient, records[k].unit, records[k].quantity,
       records[k].confidence, records[k].used_fallback>> : k \in 1..Len(records)}

\* the input records in the order p
Reordered(p) == [k \in InputNumbers |-> call.records[p[k]]]

\* C30: the pass returns the same (raw_ingredient, unit, quantity,
\* confidence, used_fallback) tuples for every order of its input records.
C30_OrderIndependent ==
    pc = "returned" =>
        \A p \in Permutations(InputNumbers) :
            ~second_pass_raises(group_by_name(Reordered(p)))
                => Tuples(consolidation_pass(Reordered(p))) = Tuples(ret)

====
